---- MODULE Spec2Model ----
(***************************************************************************)
(* A model of src/main.py, the Stealie Telegram bot: its wager-economics   *)
(* functions (grade_from_confidence, estimate_ev, compute_sharp_score),    *)
(* the ranking of sharp_card_text, the command dispatch of webhook, the    *)
(* JSON-file unit store (load_data / save_data / get_units / set_units /   *)
(* add_units) under concurrent webhook deliveries, the rate limiter        *)
(* (is_rate_limited) and the odds cache (get_cached_odds, fetch_odds_api). *)
(*                                                                         *)
(* Numbers are fixed point.  A confidence is an integer number of          *)
(* thousandths, decimal odds and prices are hundredths, a spread point is  *)
(* a number of half points, and results that the code rounds to four       *)
(* decimals are integers in units of 1/10000.                              *)
(***************************************************************************)
EXTENDS Integers, Sequences, FiniteSets, TLC

VARIABLES
    \* ---- wager economics (grade_from_confidence, estimate_ev)
    ePc,        \* "call" before the function runs, "ret" after it returned
    eOp,        \* "grade" | "ev" | "none"
    conf,       \* the confidence argument, in thousandths
    odds,       \* the decimal_odds argument: [k |-> "num" | "none", v |-> hundredths]
    eRes,       \* the returned value: [k |-> "grade" | "num" | "none", g, v]
    \* ---- compute_sharp_score
    sPc,        \* "call" | "ret"
    game,       \* the game argument
    score,      \* the returned score, in units of 1/10000
    \* ---- sharp_card_text
    kPc,        \* "call" | "ret"
    games,      \* what get_cached_odds returned: the fetched list of games
    ranked,     \* scored after sorted(...)[:top_n]: a list of [sc, idx], idx
                \* the game's position in the fetched list
    \* ---- webhook: the routing of one message
    rPc,        \* "recv" | "sent"
    rText,      \* msg.get("text", ""), a sequence of characters
    rLimited,   \* what is_rate_limited(chat_id) answers for this message
    rHandler,   \* the branch of webhook that replied
    \* ---- webhook deliveries handled concurrently, and the unit store
    file,       \* the JSON file at DATA_PATH: [units, parlay, bets], each per chat
    recent,     \* per chat: LAST_REQUEST holds the time of an accepted message
    nreq,       \* the number of deliveries received so far
    pc,         \* per request thread: where its handler stands
    loc,        \* per request thread: the locals of its handler
    adds,       \* history: per chat, the sum of the deltas of the "add units"
                \* messages accepted so far, while no other command wrote
    other,      \* history: a command other than "add units" / "units" was accepted
    \* ---- is_rate_limited and the rate-limit step of webhook
    clock,        \* time.time(), in whole seconds
    LAST_REQUEST, \* per chat: the time of its last accepted request, 0 if none
    rateLock,     \* LAST_REQUEST_LOCK: the thread holding it, 0 when free
    nPosts,       \* the number of POSTs received so far
    qPc,          \* per request thread: where its handler stands
    qLoc,         \* per request thread: chat_id, now, limited, wait, and what
                  \* the handler did: the replies it sent, whether a command ran
    passes,       \* history: per chat, the times (now) of its accepted requests
    \* ---- get_cached_odds and fetch_odds_api
    cacheClock,   \* time.time(), in whole seconds
    ODDS_KEY,     \* whether ODDS_API_KEY is configured
    CACHE,        \* per sport key: the cache entry [has, ts, data]
    feed,         \* per sport key: the games the Odds API lists
    nCalls,       \* the number of calls of get_cached_odds so far
    cPc,          \* per thread: where its call of get_cached_odds stands
    cLoc          \* per thread: key, limit, data, the returned value, and
                  \* history: what the check saw, whether the API was called

econVars == <<ePc, eOp, conf, odds, eRes>>
sharpVars == <<sPc, game, score>>
rankVars == <<kPc, games, ranked>>
routeVars == <<rPc, rText, rLimited, rHandler>>

botVars == <<file, recent, nreq, pc, loc, adds, other>>

rateVars == <<clock, LAST_REQUEST, rateLock, nPosts, qPc, qLoc, passes>>

cacheVars == <<cacheClock, ODDS_KEY, CACHE, feed, nCalls, cPc, cLoc>>

vars == <<econVars, sharpVars, rankVars, routeVars, botVars, rateVars, cacheVars>>

\* What each part of the program leaves alone.
notEcon == <<sharpVars, rankVars, routeVars, botVars, rateVars, cacheVars>>
notSharp == <<econVars, rankVars, routeVars, botVars, rateVars, cacheVars>>
notRank == <<econVars, sharpVars, routeVars, botVars, rateVars, cacheVars>>
notRoute == <<econVars, sharpVars, rankVars, botVars, rateVars, cacheVars>>
notBot == <<econVars, sharpVars, rankVars, routeVars, rateVars, cacheVars>>
notRate == <<econVars, sharpVars, rankVars, routeVars, botVars, cacheVars>>
notCache == <<econVars, sharpVars, rankVars, routeVars, botVars, rateVars>>

\* ------------------------------------------------------------------------
\* Scales of the fixed-point representation
\* ------------------------------------------------------------------------
ConfOne == 10 * 100          \* confidence 1.0, in thousandths
OddsOne == 10 * 10           \* decimal odds 1.0, in hundredths
EvOne   == 100 * 100         \* 1.0 in the units of round(x, 4)

\* Largest decimal odds drawn for estimate_ev, in hundredths.
MaxOdds == 150

Abs(x) == IF x < 0 THEN -x ELSE x

\* ------------------------------------------------------------------------
\* grade_from_confidence
\* ------------------------------------------------------------------------
GradeA == 85 * 10            \* conf >= 0.85
GradeB == 70 * 10            \* conf >= 0.7
GradeC == 55 * 10            \* conf >= 0.55
GradeD == 40 * 10            \* conf >= 0.4

\* A ladder whose third rung sits at 0.5 instead of 0.55.
grade_from_confidence_rung50(c) ==
    IF c >= GradeA THEN "A"
    ELSE IF c >= GradeB THEN "B"
    ELSE IF c >= 500 THEN "C"
    ELSE IF c >= GradeD THEN "D"
    ELSE "F"

grade_from_confidence(c) ==
    IF c >= GradeA THEN "A"
    ELSE IF c >= GradeB THEN "B"
    ELSE IF c >= GradeC THEN "C"
    ELSE IF c >= GradeD THEN "D"
    ELSE "F"

\* ------------------------------------------------------------------------
\* estimate_ev
\* ------------------------------------------------------------------------
\* The value of  confidence * (decimal_odds - 1.0) - (1.0 - confidence)
\* in units of 1/100000 (thousandths times hundredths), exactly.
EvExact5(c, o) == c * (o - OddsOne) - (ConfOne - c) * 100

\* round(x, 4) of a value given in units of 1/100000: the set of values, in
\* units of 1/10000, that the call can return.  Off a tie it is the nearest
\* one.  On a decimal tie the double that holds x lies just below or just
\* above the tie, and round() returns the neighbour on that side, so both
\* neighbours are possible.
Round4Of5(x5) ==
    LET lo == x5 \div 10       \* floor
        r  == x5 % 10          \* 0..9
    IN  IF r < 5 THEN {lo}
        ELSE IF r > 5 THEN {lo + 1}
        ELSE {lo, lo + 1}

\* The value of the except branch:  return 0.0
EvSentinel == 0

\* estimate_ev without the round(ev, 4): the value is cut to four decimals.
estimate_ev_truncating(c, o) ==
    IF o.k = "num"
    THEN {[k |-> "num", g |-> "", v |-> EvExact5(c, o.v) \div 10]}
    ELSE {[k |-> "num", g |-> "", v |-> EvSentinel]}

\* The set of values estimate_ev(confidence, decimal_odds) can return.  A
\* decimal_odds that is no number makes the arithmetic raise TypeError, which
\* the except branch turns into 0.0.
estimate_ev(c, o) ==
    IF o.k = "num"
    THEN {[k |-> "num", g |-> "", v |-> r] : r \in Round4Of5(EvExact5(c, o.v))}
    ELSE {[k |-> "num", g |-> "", v |-> EvSentinel]}

NoRes == [k |-> "none", g |-> "", v |-> 0]
NumOdds(n) == [k |-> "num", v |-> n]
NoOdds == [k |-> "none", v |-> 0]

EconInit ==
    /\ ePc = "call"
    /\ conf \in 0..ConfOne
    /\ \/ eOp = "grade" /\ odds = NoOdds
       \/ eOp = "ev" /\ odds \in {NumOdds(n) : n \in 0..MaxOdds} \cup {NoOdds}
    /\ eRes = NoRes

GradeFromConfidence ==
    /\ ePc = "call" /\ eOp = "grade"
    /\ eRes' = [k |-> "grade", g |-> grade_from_confidence(conf), v |-> 0]
    /\ ePc' = "ret"
    /\ UNCHANGED <<eOp, conf, odds, notEcon>>

EstimateEv ==
    /\ ePc = "call" /\ eOp = "ev"
    /\ eRes' \in estimate_ev(conf, odds)
    /\ ePc' = "ret"
    /\ UNCHANGED <<eOp, conf, odds, notEcon>>

EconNext == GradeFromConfidence \/ EstimateEv

EconIdle ==
    /\ ePc = "off" /\ eOp = "none" /\ conf = 0 /\ odds = NoOdds /\ eRes = NoRes


\* ------------------------------------------------------------------------
\* Claims on the wager economics
\* ------------------------------------------------------------------------

\* C1 as stated: grade_from_confidence maps 0.9 to "A", 0.5 to "C" and 0.1
\* to "F".
C1_GradeAsStated ==
    (ePc = "ret" /\ eOp = "grade") =>
        /\ (conf = 900 => eRes.g = "A")
        /\ (conf = 500 => eRes.g = "C")
        /\ (conf = 100 => eRes.g = "F")

\* C1 amended: grade_from_confidence maps 0.9 to "A", 0.5 to "D" (0.5 is
\* below the 0.55 rung of "C" and at least the 0.4 rung of "D") and 0.1 to "F".
C1_GradeLadder ==
    (ePc = "ret" /\ eOp = "grade") =>
        /\ (conf = 900 => eRes.g = "A")
        /\ (conf = 500 => eRes.g = "D")
        /\ (conf = 100 => eRes.g = "F")

C1_Witness == ePc = "ret" /\ eOp = "grade" /\ conf = 500 /\ eRes.g = "D"

\* C2 as stated: for confidence c in [0,1] and odds o > 1, estimate_ev
\* returns exactly c*(o-1) - (1-c).
C2_EvExactAsStated ==
    (ePc = "ret" /\ eOp = "ev" /\ odds.k = "num" /\ odds.v > OddsOne) =>
        eRes.v * 10 = EvExact5(conf, odds.v)

\* C2 amended: for confidence c in [0,1] and odds o > 1, estimate_ev returns
\* c*(o-1) - (1-c) rounded to four decimals, so within 0.00005 of it; it
\* returns -1 for c = 0, and o - 1 for c = 1 when o has at most four decimals.
C2_EvRounded ==
    (ePc = "ret" /\ eOp = "ev" /\ odds.k = "num" /\ odds.v > OddsOne) =>
        /\ eRes.k = "num"
        /\ Abs(eRes.v * 10 - EvExact5(conf, odds.v)) <= 5
        /\ (conf = 0 => eRes.v = -EvOne)
        /\ (conf = ConfOne => eRes.v = (odds.v - OddsOne) * 100)

C2_Witness ==
    /\ ePc = "ret" /\ eOp = "ev" /\ odds.k = "num" /\ odds.v > OddsOne
    /\ eRes.v * 10 # EvExact5(conf, odds.v)

\* C3: for odds <= 1.0, estimate_ev keeps one invalid-odds discipline: it
\* returns the sentinel of its except branch (0.0), never a value of the
\* formula.  (The function has no raising path: every exception is caught.)
C3_InvalidOddsSentinel ==
    (ePc = "ret" /\ eOp = "ev" /\ odds.k = "num" /\ odds.v <= OddsOne) =>
        eRes.v = EvSentinel

\* ------------------------------------------------------------------------
\* Game records as the Odds API's JSON gives them
\* ------------------------------------------------------------------------
\* A JSON value where the code expects a number: a number, a string or null
\* (a missing key reads as None too).
Num(n) == [k |-> "num", v |-> n]
StrVal == [k |-> "str", v |-> 0]
NullVal == [k |-> "null", v |-> 0]

\* A JSON value where the code expects a list: a list, null, or a missing
\* key (for which  .get(key, [])  gives the empty list).
List(items) == [k |-> "list", items |-> items]
NullList == [k |-> "null", items |-> <<>>]
MissingList == [k |-> "missing", items |-> <<>>]

Outcome(name, point, price) ==
    [rec |-> TRUE, name |-> name, point |-> point, price |-> price]
Market(key, outcomes) == [key |-> key, outcomes |-> outcomes]
Book(title, markets) == [rec |-> TRUE, title |-> title, markets |-> markets]
\* A bookmakers entry that is no JSON object (a string).
NonRecordBook == [rec |-> FALSE, title |-> "", markets |-> MissingList]
Game(bookmakers) == [bookmakers |-> bookmakers]

\* Largest number of bookmakers drawn for one game.
MaxBooks == 2

\* The bookmaker entries games are drawn from.  Spread points are in half
\* points (-6 is -3.0), prices in hundredths (180 is 1.80).
BookDK ==
    Book("DraftKings", List(<<
        Market("spreads", List(<<Outcome("H", Num(-6), Num(191)), Outcome("A", Num(6), Num(191))>>)),
        Market("h2h", List(<<Outcome("H", NullVal, Num(180)), Outcome("A", NullVal, Num(205))>>)),
        Market("totals", List(<<Outcome("Over", Num(89), Num(191))>>)) >>))
BookFD ==
    Book("FanDuel", List(<<
        Market("spreads", List(<<Outcome("H", Num(-7), Num(187)), Outcome("A", Num(7), Num(195))>>)),
        Market("h2h", List(<<Outcome("H", NullVal, Num(195)), Outcome("A", NullVal, Num(190))>>)) >>))
BookNoSpread ==
    Book("BetMGM", List(<<
        Market("h2h", List(<<Outcome("H", NullVal, Num(180)), Outcome("A", NullVal, Num(205))>>)),
        Market("totals", List(<<Outcome("Over", Num(90), Num(191))>>)) >>))
BookBadValues ==
    Book("Caesars", List(<<
        Market("spreads", List(<<Outcome("H", StrVal, Num(191)), Outcome("A", Num(6), Num(191))>>)),
        Market("h2h", List(<<Outcome("H", NullVal, StrVal), Outcome("A", NullVal, Num(205))>>)) >>))
BookOnlyBadSpreads ==
    Book("Bovada", List(<<
        Market("spreads", List(<<Outcome("H", NullVal, Num(191)), Outcome("A", StrVal, Num(191))>>)),
        Market("totals", List(<<Outcome("Over", Num(89), Num(191))>>)) >>))
BookNullMarkets == Book("PointsBet", NullList)
BookNullOutcomes == Book("Unibet", List(<<Market("spreads", NullList)>>))
BookOneTeam ==
    Book("BetRivers", List(<<
        Market("spreads", List(<<Outcome("H", Num(-6), Num(191))>>)) >>))
BookShortPrice ==
    Book("WynnBet", List(<<
        Market("h2h", List(<<Outcome("H", NullVal, Num(100)), Outcome("A", NullVal, Num(300))>>)) >>))

BookSet ==
    {BookDK, BookFD, BookNoSpread, BookBadValues, BookOnlyBadSpreads,
     BookNullMarkets, BookNullOutcomes, BookOneTeam, BookShortPrice, NonRecordBook}

RECURSIVE SeqsUpTo(_, _)
SeqsUpTo(S, n) ==
    IF n = 0 THEN {<<>>}
    ELSE LET shorter == SeqsUpTo(S, n - 1)
         IN  shorter \cup {Append(q, x) : q \in {r \in shorter : Len(r) = n - 1}, x \in S}

GameSet ==
    {Game(List(bs)) : bs \in SeqsUpTo(BookSet, MaxBooks)}
        \cup {Game(NullList), Game(MissingList)}

\* ------------------------------------------------------------------------
\* compare_lines_across_books
\* ------------------------------------------------------------------------
RECURSIVE Concat(_)
Concat(ss) == IF ss = <<>> THEN <<>> ELSE Head(ss) \o Concat(Tail(ss))

RECURSIVE SumSeq(_)
SumSeq(q) == IF q = <<>> THEN 0 ELSE Head(q) + SumSeq(Tail(q))

RECURSIVE SumFun(_, _)
SumFun(f, S) ==
    IF S = {} THEN 0
    ELSE LET x == CHOOSE y \in S : TRUE IN f[x] + SumFun(f, S \ {x})

Range(q) == {q[i] : i \in 1..Len(q)}

\* The market keys whose outcomes compare_lines_across_books iterates.
ReadKeys == {"spreads", "totals", "h2h"}

\* Whether the loops of compare_lines_across_books raise: iterating a null
\* list (TypeError) or calling .get on an entry that is no dict
\* (AttributeError).  The outcomes of a market of another key are never read.
BookRaises(b) ==
    \/ ~b.rec
    \/ b.markets.k = "null"
    \/ \E m \in Range(b.markets.items) :
          /\ m.key \in ReadKeys
          /\ \/ m.outcomes.k = "null"
             \/ \E o \in Range(m.outcomes.items) : ~o.rec

CompareRaises(g) ==
    \/ g.bookmakers.k = "null"
    \/ \E b \in Range(g.bookmakers.items) : BookRaises(b)

\* The markets of key `key`, over all books, in the order of the loops.
MarketsOf(g, key) ==
    Concat([i \in 1..Len(g.bookmakers.items) |->
        SelectSeq(g.bookmakers.items[i].markets.items, LAMBDA m : m.key = key)])

\* spreads: the (team, point) pairs with a point that is a number, in order
\* (the dict team -> list of (book, point), flattened).
SpreadQuotes(g) ==
    LET ms == MarketsOf(g, "spreads")
    IN  Concat([i \in 1..Len(ms) |->
            SelectSeq(ms[i].outcomes.items, LAMBDA o : o.point.k = "num")])

SpreadTeams(g) == {o.name : o \in Range(SpreadQuotes(g))}

SpreadVals(g, team) ==
    LET qs == SelectSeq(SpreadQuotes(g), LAMBDA o : o.name = team)
    IN  [i \in 1..Len(qs) |-> qs[i].point.v]

\* h2h: per h2h market the dict  name -> price : a later outcome of the same
\* name overwrites an earlier one.
PriceMap(m) ==
    LET os == m.outcomes.items
        names == {o.name : o \in Range(os)}
        last(n) == CHOOSE i \in 1..Len(os) :
                      /\ os[i].name = n
                      /\ \A j \in (i + 1)..Len(os) : os[j].name # n
    IN  [n \in names |-> os[last(n)].price]

H2H(g) ==
    LET ms == MarketsOf(g, "h2h")
    IN  [i \in 1..Len(ms) |-> PriceMap(ms[i])]

\* ------------------------------------------------------------------------
\* compute_sharp_score
\* ------------------------------------------------------------------------
RECURSIVE IsqrtIn(_, _, _)
IsqrtIn(n, lo, hi) ==
    IF lo >= hi THEN lo
    ELSE LET mid == (lo + hi + 1) \div 2
         IN  IF mid * mid <= n THEN IsqrtIn(n, mid, hi) ELSE IsqrtIn(n, lo, mid - 1)

\* floor(sqrt(n)) for 0 <= n < 2^31
Isqrt(n) == IsqrtIn(n, 0, 46340)

\* abs(statistics.mean(vals)) in units of 1/10000 of a point.
AbsMean4(vals) == (Abs(SumSeq(vals)) * 5000) \div Len(vals)

\* statistics.pstdev(vals) in units of 1/10000 of a point:
\* sqrt(n * sum(x^2) - sum(x)^2) / n  half points.
Pstdev4(vals) ==
    LET n == Len(vals)
        d == n * SumSeq([i \in 1..n |-> vals[i] * vals[i]]) - SumSeq(vals) * SumSeq(vals)
    IN  (Isqrt(d * 1000000) * 5) \div n

\* std = statistics.pstdev(vals) if len(vals) > 1 else 0.0
TeamStd4(vals) == IF Len(vals) > 1 THEN Pstdev4(vals) ELSE 0

\* team_probs: per team the prices that are numbers, over the h2h markets.
TeamPrices(g, team) ==
    LET h == H2H(g)
        has(i) == team \in DOMAIN h[i] /\ h[i][team].k = "num"
        idx == SelectSeq([i \in 1..Len(h) |-> i], has)
    IN  [j \in 1..Len(idx) |-> h[idx[j]][team].v]

MlTeams(g) ==
    LET h == H2H(g)
    IN  {t \in UNION {DOMAIN h[i] : i \in 1..Len(h)} : Len(TeamPrices(g, t)) > 0}

\* abs(prob - 0.5) in units of 1/10000, with  prob = 1.0 / avg  when the
\* mean price avg is above 1.01 and 0.5 otherwise.
TeamDivergence4(ps) ==
    LET total == SumSeq(ps)
        n == Len(ps)
    IN  IF total > 101 * n THEN Abs((1000000 * n) \div total - 5000) ELSE 0

MlDivergence4(g) ==
    LET ts == MlTeams(g)
    IN  IF ts = {} THEN 0
        ELSE SumFun([t \in ts |-> TeamDivergence4(TeamPrices(g, t))], ts) \div Cardinality(ts)

MeanAbs4(g) ==
    LET ts == SpreadTeams(g)
    IN  SumFun([t \in ts |-> AbsMean4(SpreadVals(g, t))], ts) \div Cardinality(ts)

MeanStd4(g) ==
    LET ts == SpreadTeams(g)
    IN  SumFun([t \in ts |-> TeamStd4(SpreadVals(g, t))], ts) \div Cardinality(ts)

\* round((1/(1 + mean_abs)) * (1 + mean_std*1.2 + ml_divergence*2.0), 4)
\* in units of 1/10000.
Combine4(meanAbs, meanStd, mlDiv) ==
    LET boost == 10000 + (12 * meanStd) \div 10 + 2 * mlDiv
        den == 10000 + meanAbs
    IN  (2 * 10000 * boost + den) \div (2 * den)

\* compute_sharp_score without the  if not teams: return 0.0  guard: an
\* empty spreads dict falls through to mean_abs = 99.0.
compute_sharp_score_unguarded(g) ==
    IF CompareRaises(g) THEN 0
    ELSE IF SpreadTeams(g) = {} THEN Combine4(990000, 0, MlDivergence4(g))
    ELSE Combine4(MeanAbs4(g), MeanStd4(g), MlDivergence4(g))

\* compute_sharp_score(game), in units of 1/10000.  Any exception inside is
\* caught and gives 0.0.
compute_sharp_score(g) ==
    IF CompareRaises(g) THEN 0
    ELSE IF SpreadTeams(g) = {} THEN 0
    ELSE Combine4(MeanAbs4(g), MeanStd4(g), MlDivergence4(g))

\* ------------------------------------------------------------------------
\* compute_sharp_score as an operation
\* ------------------------------------------------------------------------
SharpInit == sPc = "call" /\ game \in GameSet /\ score = 0

SharpIdle == sPc = "off" /\ game = Game(MissingList) /\ score = 0

ComputeSharpScore ==
    /\ sPc = "call"
    /\ score' = compute_sharp_score(game)
    /\ sPc' = "ret"
    /\ UNCHANGED <<game, notSharp>>

SharpNext == ComputeSharpScore

\* ------------------------------------------------------------------------
\* sharp_card_text
\* ------------------------------------------------------------------------
\* top_n=5
TopN == 5

\* Longest fetched list drawn for sharp_card_text.
MaxGames == 6

\* The games the fetched list is drawn from: two that score 0.0 and two
\* that score above it.
RankGames ==
    {Game(List(<<>>)), Game(List(<<BookNoSpread>>)),
     Game(List(<<BookDK>>)), Game(List(<<BookDK, BookFD>>))}

Min(a, b) == IF a < b THEN a ELSE b

\* scored: the (sc, g) pairs in the order of the fetched list.
Scored(gs) == [i \in 1..Len(gs) |-> [sc |-> compute_sharp_score(gs[i]), idx |-> i]]

\* x put into a list sorted by descending sc, after every entry whose sc is
\* at least x.sc.
InsertAfterEqual(q, x) ==
    LET k == Cardinality({i \in 1..Len(q) : q[i].sc >= x.sc})
    IN  SubSeq(q, 1, k) \o <<x>> \o SubSeq(q, k + 1, Len(q))

\* x put before every entry whose sc is at most x.sc.
InsertBeforeEqual(q, x) ==
    LET k == Cardinality({i \in 1..Len(q) : q[i].sc > x.sc})
    IN  SubSeq(q, 1, k) \o <<x>> \o SubSeq(q, k + 1, Len(q))

RECURSIVE FoldInsertAfter(_, _)
FoldInsertAfter(acc, q) ==
    IF q = <<>> THEN acc ELSE FoldInsertAfter(InsertAfterEqual(acc, Head(q)), Tail(q))

RECURSIVE FoldInsertBefore(_, _)
FoldInsertBefore(acc, q) ==
    IF q = <<>> THEN acc ELSE FoldInsertBefore(InsertBeforeEqual(acc, Head(q)), Tail(q))

\* An ascending sort that is then reversed: equal scores come out in the
\* reverse of the fetch order.
sorted_then_reversed(q) == FoldInsertBefore(<<>>, q)

\* sorted(scored, key=lambda x: x[0], reverse=True): Python's sort is stable
\* and reverse=True keeps the original order of equal keys.
sorted_reverse(q) == FoldInsertAfter(<<>>, q)

RankInit == kPc = "call" /\ games \in SeqsUpTo(RankGames, MaxGames) /\ ranked = <<>>

RankIdle == kPc = "off" /\ games = <<>> /\ ranked = <<>>

\* if not games: return the "No odds available" text
SharpCardNoOdds ==
    /\ kPc = "call" /\ games = <<>>
    /\ kPc' = "ret"
    /\ UNCHANGED <<games, ranked, notRank>>

SharpCardText ==
    /\ kPc = "call" /\ games # <<>>
    /\ ranked' = LET q == sorted_reverse(Scored(games)) IN SubSeq(q, 1, Min(TopN, Len(q)))
    /\ kPc' = "ret"
    /\ UNCHANGED <<games, notRank>>

RankNext == SharpCardNoOdds \/ SharpCardText

\* ------------------------------------------------------------------------
\* Text of a message: a sequence of one-character strings
\* ------------------------------------------------------------------------
LowerOf ==
    [A |-> "a", B |-> "b", C |-> "c", D |-> "d", E |-> "e", F |-> "f", G |-> "g",
     H |-> "h", I |-> "i", J |-> "j", K |-> "k", L |-> "l", M |-> "m", N |-> "n",
     O |-> "o", P |-> "p", Q |-> "q", R |-> "r", S |-> "s", T |-> "t", U |-> "u",
     V |-> "v", W |-> "w", X |-> "x", Y |-> "y", Z |-> "z"]

\* str.lower()
Lower(t) == [i \in 1..Len(t) |-> IF t[i] \in DOMAIN LowerOf THEN LowerOf[t[i]] ELSE t[i]]

RECURSIVE LStrip(_)
LStrip(t) == IF t # <<>> /\ Head(t) = " " THEN LStrip(Tail(t)) ELSE t

RECURSIVE RStrip(_)
RStrip(t) == IF t # <<>> /\ t[Len(t)] = " " THEN RStrip(SubSeq(t, 1, Len(t) - 1)) ELSE t

\* str.strip()
Strip(t) == RStrip(LStrip(t))

\* sub in t
Contains(sub, t) ==
    \E i \in 1..(Len(t) - Len(sub) + 1) : SubSeq(t, i, i + Len(sub) - 1) = sub

\* t.startswith(pre)
StartsWith(t, pre) == Len(t) >= Len(pre) /\ SubSeq(t, 1, Len(pre)) = pre

\* str.split(): the maximal runs of characters that are no whitespace
RECURSIVE SplitFrom(_, _)
SplitFrom(t, word) ==
    IF t = <<>> THEN (IF word = <<>> THEN <<>> ELSE <<word>>)
    ELSE IF Head(t) = " "
         THEN (IF word = <<>> THEN <<>> ELSE <<word>>) \o SplitFrom(Tail(t), <<>>)
         ELSE SplitFrom(Tail(t), Append(word, Head(t)))

Split(t) == SplitFrom(t, <<>>)

\* The keywords webhook tests for.
W_set_units == <<"s", "e", "t", " ", "u", "n", "i", "t", "s">>
W_add_units == <<"a", "d", "d", " ", "u", "n", "i", "t", "s">>
W_units == <<"u", "n", "i", "t", "s">>
W_my_units == <<"m", "y", " ", "u", "n", "i", "t", "s">>
W_card == <<"c", "a", "r", "d">>
W_slate == <<"s", "l", "a", "t", "e">>
W_games == <<"g", "a", "m", "e", "s">>
W_prop == <<"p", "r", "o", "p">>
W_props == <<"p", "r", "o", "p", "s">>
W_player == <<"p", "l", "a", "y", "e", "r">>
W_sharp == <<"s", "h", "a", "r", "p">>
W_sgp == <<"s", "g", "p">>
W_same_game_hyphen == <<"s", "a", "m", "e", "-", "g", "a", "m", "e">>
W_same_game == <<"s", "a", "m", "e", " ", "g", "a", "m", "e">>
W_parlay == <<"p", "a", "r", "l", "a", "y">>
W_auto_parlay == <<"a", "u", "t", "o", "-", "p", "a", "r", "l", "a", "y">>
W_betparlay == <<"/", "b", "e", "t", "p", "a", "r", "l", "a", "y">>
W_pick == <<"p", "i", "c", "k">>
W_play == <<"p", "l", "a", "y">>
W_bet == <<"b", "e", "t">>

\* ------------------------------------------------------------------------
\* webhook: which branch answers a message that passed the rate limiter
\* ------------------------------------------------------------------------
\* The if-chain of webhook after the rate limiter, in the order of the code.
\* The sgp and parlay branches sit inside the card / slate / games block.
Route(text) ==
    LET t == Lower(Strip(text))
    IN  IF StartsWith(t, W_set_units) THEN "set_units"
        ELSE IF StartsWith(t, W_add_units) THEN "add_units"
        ELSE IF t \in {W_units, W_my_units} THEN "units"
        ELSE IF Contains(W_card, t) \/ Contains(W_slate, t) \/ Contains(W_games, t)
             THEN IF Contains(W_prop, t) \/ Contains(W_props, t) \/ Contains(W_player, t)
                     THEN "props_card"
                  ELSE IF Contains(W_sharp, t) THEN "sharp_card"
                  ELSE IF Contains(W_sgp, t) \/ Contains(W_same_game_hyphen, t)
                            \/ Contains(W_same_game, t)
                     THEN "sgp"
                  ELSE IF Contains(W_parlay, t) \/ Contains(W_auto_parlay, t) THEN "parlay"
                  ELSE "game_card"
        ELSE IF StartsWith(t, W_betparlay) THEN "betparlay"
        ELSE IF Contains(W_pick, t) \/ Contains(W_play, t) \/ Contains(W_bet, t) THEN "pick"
        ELSE "help"

\* The commands help_text lists, each as listed (with and without its
\* placeholder filled in), and the branch help_text gives it.
HelpCommands ==
    {[text |-> <<"c", "a", "r", "d">>, handler |-> "game_card"],
     [text |-> <<"s", "l", "a", "t", "e">>, handler |-> "game_card"],
     [text |-> <<"g", "a", "m", "e", "s">>, handler |-> "game_card"],
     [text |-> <<"c", "a", "r", "d", " ", "n", "f", "l">>, handler |-> "game_card"],
     [text |-> <<"c", "a", "r", "d", " ", "c", "f", "b">>, handler |-> "game_card"],
     [text |-> <<"s", "l", "a", "t", "e", " ", "n", "f", "l">>, handler |-> "game_card"],
     [text |-> <<"s", "l", "a", "t", "e", " ", "c", "f", "b">>, handler |-> "game_card"],
     [text |-> <<"g", "a", "m", "e", "s", " ", "n", "f", "l">>, handler |-> "game_card"],
     [text |-> <<"g", "a", "m", "e", "s", " ", "c", "f", "b">>, handler |-> "game_card"],
     [text |-> <<"s", "h", "a", "r", "p", " ", "c", "a", "r", "d">>, handler |-> "sharp_card"],
     [text |-> <<"p", "r", "o", "p", "s", " ", "c", "a", "r", "d">>, handler |-> "props_card"],
     [text |-> <<"p", "a", "r", "l", "a", "y">>, handler |-> "parlay"],
     [text |-> <<"a", "u", "t", "o", "-", "p", "a", "r", "l", "a", "y">>, handler |-> "parlay"],
     [text |-> <<"s", "g", "p", " ", "c", "h", "i", "e", "f", "s">>, handler |-> "sgp"],
     [text |-> <<"s", "g", "p", " ", "b", "i", "l", "l", "s">>, handler |-> "sgp"],
     [text |-> <<"s", "g", "p", " ", "<", "t", "e", "a", "m", ">">>, handler |-> "sgp"],
     [text |-> <<"p", "i", "c", "k">>, handler |-> "pick"],
     [text |-> <<"s", "e", "t", " ", "u", "n", "i", "t", "s", " ", "2">>, handler |-> "set_units"],
     [text |-> <<"s", "e", "t", " ", "u", "n", "i", "t", "s", " ", "<", "n", ">">>, handler |-> "set_units"],
     [text |-> <<"a", "d", "d", " ", "u", "n", "i", "t", "s", " ", "1">>, handler |-> "add_units"],
     [text |-> <<"a", "d", "d", " ", "u", "n", "i", "t", "s", " ", "<", "n", ">">>, handler |-> "add_units"],
     [text |-> <<"u", "n", "i", "t", "s">>, handler |-> "units"],
     [text |-> <<"/", "b", "e", "t", "p", "a", "r", "l", "a", "y", " ", "1">>, handler |-> "betparlay"],
     [text |-> <<"/", "b", "e", "t", "p", "a", "r", "l", "a", "y", " ", "<", "u", "n", "i", "t", "s", ">">>, handler |-> "betparlay"]}

\* Other messages a chat may send.
OtherTexts ==
    {<<>>,
     <<"h", "e", "l", "l", "o">>,
     <<" ", " ", "C", "a", "r", "d", " ", " ">>,
     <<"S", "h", "a", "r", "p", " ", "C", "a", "r", "d">>,
     <<"p", "a", "r", "l", "a", "y", " ", "c", "a", "r", "d">>,
     <<"n", "f", "l", " ", "p", "a", "r", "l", "a", "y", " ", "c", "a", "r", "d">>,
     <<"s", "g", "p", " ", "c", "a", "r", "d", " ", "c", "h", "i", "e", "f", "s">>,
     <<"s", "g", "p", " ", "c", "a", "r", "d", "i", "n", "a", "l", "s">>,
     <<"m", "y", " ", "u", "n", "i", "t", "s">>,
     <<"S", "G", "P", " ", "C", "h", "i", "e", "f", "s">>,
     <<"P", "a", "r", "l", "a", "y">>,
     <<"/", "b", "e", "t", "p", "a", "r", "l", "a", "y">>,
     <<"p", "l", "a", "y", "e", "r", " ", "p", "r", "o", "p", "s", " ", "c", "a", "r", "d">>,
     <<"P", "i", "c", "k", " ", "n", "f", "l">>,
     <<"s", "h", "a", "r", "p", " ", "p", "a", "r", "l", "a", "y", " ", "s", "l", "a", "t", "e">>,
     <<"b", "e", "s", "t", " ", "b", "e", "t">>,
     <<"s", "a", "m", "e", " ", "g", "a", "m", "e", " ", "p", "a", "r", "l", "a", "y", " ", "g", "a", "m", "e", "s">>}

RouteTexts == {c.text : c \in HelpCommands} \cup OtherTexts

RouteInit ==
    /\ rPc = "recv" /\ rText \in RouteTexts /\ rLimited \in BOOLEAN /\ rHandler = "none"

RouteIdle == rPc = "off" /\ rText = <<>> /\ rLimited = FALSE /\ rHandler = "none"

\* if limited: send the rate-limit notice and return
WebhookRateLimited ==
    /\ rPc = "recv" /\ rLimited
    /\ rHandler' = "rate_limit"
    /\ rPc' = "sent"
    /\ UNCHANGED <<rText, rLimited, notRoute>>

WebhookDispatch ==
    /\ rPc = "recv" /\ ~rLimited
    /\ rHandler' = Route(rText)
    /\ rPc' = "sent"
    /\ UNCHANGED <<rText, rLimited, notRoute>>

RouteNext == WebhookRateLimited \/ WebhookDispatch

\* ------------------------------------------------------------------------
\* The unit store and the handlers of webhook that read and write it
\* ------------------------------------------------------------------------
Chats == {1, 2}
Threads == {1, 2}

\* The number of deliveries a run receives.
MaxRequests == 3

DigitOf ==
    ("0" :> 0) @@ ("1" :> 1) @@ ("2" :> 2) @@ ("3" :> 3) @@ ("4" :> 4) @@
    ("5" :> 5) @@ ("6" :> 6) @@ ("7" :> 7) @@ ("8" :> 8) @@ ("9" :> 9)

RECURSIVE DigitsValue(_, _)
DigitsValue(tok, acc) ==
    IF tok = <<>> THEN acc ELSE DigitsValue(Tail(tok), 10 * acc + DigitOf[Head(tok)])

\* float(tok) for a token of decimal digits with an optional minus sign; any
\* other token drawn here raises ValueError.
ParseFloat(tok) ==
    LET body == IF tok # <<>> /\ Head(tok) = "-" THEN Tail(tok) ELSE tok
        v == DigitsValue(body, 0)
    IN  IF body # <<>> /\ \A i \in 1..Len(body) : body[i] \in DOMAIN DigitOf
        THEN [ok |-> TRUE, v |-> IF body = tok THEN v ELSE -v]
        ELSE [ok |-> FALSE, v |-> 0]

\* float(parts[i]); a missing parts[i] raises IndexError.
ParsePart(text, i) ==
    LET parts == Split(Lower(Strip(text)))
    IN  IF Len(parts) >= i THEN ParseFloat(parts[i]) ELSE [ok |-> FALSE, v |-> 0]

\* units = float(parts[1]) if len(parts) > 1 else 1.0
ParseStake(text) ==
    LET parts == Split(Lower(Strip(text)))
    IN  IF Len(parts) > 1 THEN ParseFloat(parts[2]) ELSE [ok |-> TRUE, v |-> 1]

\* The messages the chats send.
BotTexts ==
    {<<"a", "d", "d", " ", "u", "n", "i", "t", "s", " ", "1">>,
     <<"a", "d", "d", " ", "u", "n", "i", "t", "s", " ", "<", "n", ">">>,
     <<"s", "e", "t", " ", "u", "n", "i", "t", "s", " ", "2">>,
     <<"u", "n", "i", "t", "s">>,
     <<"p", "a", "r", "l", "a", "y", " ", "c", "a", "r", "d">>,
     <<"/", "b", "e", "t", "p", "a", "r", "l", "a", "y", " ", "1">>,
     <<"/", "b", "e", "t", "p", "a", "r", "l", "a", "y", " ", "<", "u", "n", "i", "t", "s", ">">>,
     <<"/", "b", "e", "t", "p", "a", "r", "l", "a", "y", " ", "0">>,
     <<"/", "b", "e", "t", "p", "a", "r", "l", "a", "y", " ", "-", "1">>,
     <<"p", "i", "c", "k">>}

\* For each message: the branch of webhook it selects and the numbers that
\* branch parses from it.
BotDispatch ==
    [text \in BotTexts |->
        [h |-> Route(text), part3 |-> ParsePart(text, 3), stake |-> ParseStake(text)]]

\* What call_openai_for_pick returns: None (no client, an API error), or
\* whatever JSON the model's text parsed to: an object, with a confidence and
\* suggested odds that are numbers, strings that are no numbers, null or
\* absent, or a value that is no object (a non-empty array, a string).
AiNone == [k |-> "none", confidence |-> NullVal, odds |-> NullVal]
AiObject(confidence, dec_odds) ==
    [k |-> "object", confidence |-> confidence, odds |-> dec_odds]
AiOther == [k |-> "other", confidence |-> NullVal, odds |-> NullVal]
Absent == [k |-> "absent", v |-> 0]

AiAnswers ==
    {AiNone, AiOther}
        \cup {AiObject(c, o) : c \in {Num(700), StrVal, NullVal, Absent},
                               o \in {Num(190), StrVal, Absent}}

\* float(ai.get(key, default)): a number or an absent key converts; the
\* strings drawn here raise ValueError and null raises TypeError.
FloatOk(x) == x.k \in {"num", "absent"}

\* The pick branch after call_openai_for_pick: the "unavailable" reply for
\* None, the pick reply when both numbers convert, an exception otherwise
\* (ai.get on a value that is no object raises AttributeError).
PickNormalize(ai) ==
    IF ai.k = "none" THEN "ai_unavailable"
    ELSE IF ai.k = "other" THEN "raise"
    ELSE IF FloatOk(ai.confidence) /\ FloatOk(ai.odds) THEN "pick"
    ELSE "raise"

\* {"users": {}, "cache": {}}: a balance reads as 0.0, no parlay is cached.
EmptyFile ==
    [units |-> [c \in Chats |-> 0],
     parlay |-> [c \in Chats |-> FALSE],
     bets |-> [c \in Chats |-> <<>>]]

NoLoc ==
    [chat |-> 0, h |-> "none", reply |-> "none", delta |-> 0, stake |-> 0,
     cur |-> 0, val |-> 0, d |-> EmptyFile, data |-> EmptyFile,
     before |-> 0, solo |-> FALSE]

BotInit ==
    /\ file = EmptyFile
    /\ recent = [c \in Chats |-> FALSE]
    /\ nreq = 0
    /\ pc = [t \in Threads |-> "idle"]
    /\ loc = [t \in Threads |-> NoLoc]
    /\ adds = [c \in Chats |-> 0]
    /\ other = FALSE

BotIdle ==
    /\ file = EmptyFile
    /\ recent = [c \in Chats |-> FALSE]
    /\ nreq = 0
    /\ pc = [t \in Threads |-> "off"]
    /\ loc = [t \in Threads |-> NoLoc]
    /\ adds = [c \in Chats |-> 0]
    /\ other = FALSE

\* get_units(chat_id) on the file content d
get_units(d, c) == d.units[c]

\* set_units(chat_id, units), the write: data["users"][chat]["units"] = units
\* on the content `data` it loaded, then save_data(data)
set_units_write(data, c, v) == [data EXCEPT !.units[c] = v]

\* send_telegram(chat_id, <reply>); return jsonify({"ok": True}).  The
\* thread is free again; what it keeps of the request is history.
Finish(t, reply) ==
    /\ pc' = [pc EXCEPT ![t] = "idle"]
    /\ loc' = [loc EXCEPT ![t] = [NoLoc EXCEPT !.chat = loc[t].chat, !.h = loc[t].h,
                                               !.reply = reply, !.stake = loc[t].stake,
                                               !.before = loc[t].before, !.solo = loc[t].solo]]

\* A delivery arrives on request thread t: the rate limiter, then the branch
\* of webhook the text selects, up to its first read of the file.  A chat
\* with an accepted message behind it is limited unless RATE_WINDOW_SEC
\* seconds have passed since, which the clock decides.
Receive(t) ==
    /\ pc[t] = "idle"
    /\ nreq < MaxRequests
    /\ nreq' = nreq + 1
    /\ \E c \in Chats, text \in BotTexts, elapsed \in BOOLEAN :
        LET h == BotDispatch[text].h
            me == [NoLoc EXCEPT !.chat = c, !.h = h]
            rest == [u \in Threads |-> [loc[u] EXCEPT !.solo = FALSE]]
            go(label, l) ==
                /\ pc' = [pc EXCEPT ![t] = label]
                /\ loc' = [rest EXCEPT ![t] = l]
        IN  IF recent[c] /\ ~elapsed
            THEN /\ go("idle", [NoLoc EXCEPT !.chat = c, !.h = "rate_limit", !.reply = "rate_limit"])
                 /\ UNCHANGED <<recent, adds, other>>
            ELSE
              /\ recent[c] \/ elapsed
              /\ recent' = [recent EXCEPT ![c] = TRUE]
              /\ CASE h = "set_units" ->
                        LET a == BotDispatch[text].part3
                        IN  IF a.ok
                            THEN /\ go("set_load", [me EXCEPT !.val = a.v])
                                 /\ other' = TRUE
                                 /\ adds' = [x \in Chats |-> 0]
                            ELSE /\ go("idle", [me EXCEPT !.reply = "usage"])
                                 /\ UNCHANGED <<adds, other>>
                   [] h = "add_units" ->
                        LET a == BotDispatch[text].part3
                        IN  IF a.ok
                            THEN /\ go("add_get", [me EXCEPT !.delta = a.v])
                                 /\ adds' = IF other THEN adds ELSE [adds EXCEPT ![c] = @ + a.v]
                                 /\ UNCHANGED other
                            ELSE /\ go("idle", [me EXCEPT !.reply = "usage"])
                                 /\ UNCHANGED <<adds, other>>
                   [] h = "units" ->
                        /\ go("units_get", me)
                        /\ UNCHANGED <<adds, other>>
                   [] h = "parlay" ->
                        /\ go("parlay_build", me)
                        /\ other' = TRUE
                        /\ adds' = [x \in Chats |-> 0]
                   [] h = "betparlay" ->
                        LET a == BotDispatch[text].stake
                        IN  IF a.ok
                            THEN /\ go("bet_load",
                                       [me EXCEPT !.stake = a.v, !.before = file.units[c],
                                                  !.solo = \A u \in Threads \ {t} : pc[u] = "idle"])
                                 /\ other' = TRUE
                                 /\ adds' = [x \in Chats |-> 0]
                            ELSE /\ go("crashed", me)
                                 /\ UNCHANGED <<adds, other>>
                   [] h = "pick" ->
                        /\ go("pick_ai", me)
                        /\ UNCHANGED <<adds, other>>
                   [] OTHER ->
                        /\ go("idle", [me EXCEPT !.reply = h])
                        /\ UNCHANGED <<adds, other>>
    /\ UNCHANGED <<file, notBot>>

\* "units": u = get_units(chat_id), one load_data, and the reply
UnitsGet(t) ==
    /\ pc[t] = "units_get"
    /\ Finish(t, "units")
    /\ UNCHANGED <<file, recent, nreq, adds, other, notBot>>

\* add_units: current = get_units(chat_id); new = current + float(delta)
AddGet(t) ==
    /\ pc[t] = "add_get"
    /\ LET cur == get_units(file, loc[t].chat)
       IN  loc' = [loc EXCEPT ![t].cur = cur, ![t].val = cur + loc[t].delta]
    /\ pc' = [pc EXCEPT ![t] = "set_load"]
    /\ UNCHANGED <<file, recent, nreq, adds, other, notBot>>

\* set_units: data = load_data()
SetLoad(t) ==
    /\ pc[t] = "set_load"
    /\ loc' = [loc EXCEPT ![t].data = file]
    /\ pc' = [pc EXCEPT ![t] = "set_save"]
    /\ UNCHANGED <<file, recent, nreq, adds, other, notBot>>

\* set_units: data["users"][chat]["units"] = units; save_data(data).  It
\* ends "set units" and "add units" with their reply; "/betparlay" goes on.
SetSave(t) ==
    /\ pc[t] = "set_save"
    /\ file' = set_units_write(loc[t].data, loc[t].chat, loc[t].val)
    /\ IF loc[t].h = "betparlay"
       THEN /\ pc' = [pc EXCEPT ![t] = "bet_save"]
            /\ UNCHANGED loc
       ELSE Finish(t, "ok")
    /\ UNCHANGED <<recent, nreq, adds, other, notBot>>

\* The card-block parlay branch: build_auto_parlay, which fails when the
\* odds are unavailable or hold no spread.
ParlayBuild(t) ==
    /\ pc[t] = "parlay_build"
    /\ \E built \in BOOLEAN :
          IF built
          THEN pc' = [pc EXCEPT ![t] = "cache_load"] /\ UNCHANGED loc
          ELSE Finish(t, "warning")
    /\ UNCHANGED <<file, recent, nreq, adds, other, notBot>>

\* d = load_data()
CacheLoad(t) ==
    /\ pc[t] = "cache_load"
    /\ loc' = [loc EXCEPT ![t].d = file]
    /\ pc' = [pc EXCEPT ![t] = "cache_save"]
    /\ UNCHANGED <<file, recent, nreq, adds, other, notBot>>

\* d["cache"][chat] = {"last_parlay": parlay}; save_data(d).  The chat's
\* cache entry is replaced whole, its bets list with it.
CacheSave(t) ==
    /\ pc[t] = "cache_save"
    /\ file' = [loc[t].d EXCEPT !.parlay[loc[t].chat] = TRUE, !.bets[loc[t].chat] = <<>>]
    /\ Finish(t, "parlay")
    /\ UNCHANGED <<recent, nreq, adds, other, notBot>>

\* "/betparlay": d = load_data(); last = the chat's cached parlay
BetLoad(t) ==
    /\ pc[t] = "bet_load"
    /\ IF file.parlay[loc[t].chat]
       THEN /\ loc' = [loc EXCEPT ![t].d = file]
            /\ pc' = [pc EXCEPT ![t] = "bet_check"]
       ELSE Finish(t, "no_parlay")
    /\ UNCHANGED <<file, recent, nreq, adds, other, notBot>>

\* current_units = get_units(chat_id); if current_units < units: refuse;
\* else add_units(chat_id, -units)
BetCheck(t) ==
    /\ pc[t] = "bet_check"
    /\ IF get_units(file, loc[t].chat) < loc[t].stake
       THEN Finish(t, "insufficient")
       ELSE /\ loc' = [loc EXCEPT ![t].delta = -loc[t].stake]
            /\ pc' = [pc EXCEPT ![t] = "add_get"]
    /\ UNCHANGED <<file, recent, nreq, adds, other, notBot>>

\* The bet is appended to the bets list of d, the content loaded at the
\* start of the branch, and save_data(d) writes d over the file.
bet_save_write(d, c, stake) == [d EXCEPT !.bets[c] = Append(@, stake)]

BetSave(t) ==
    /\ pc[t] = "bet_save"
    /\ file' = bet_save_write(loc[t].d, loc[t].chat, loc[t].stake)
    /\ Finish(t, "placed")
    /\ UNCHANGED <<recent, nreq, adds, other, notBot>>

\* "pick": ai = call_openai_for_pick(...), then the normalization of what it
\* returned and the reply.
PickReply(t) ==
    /\ pc[t] = "pick_ai"
    /\ \E ai \in AiAnswers :
          LET r == PickNormalize(ai)
          IN  IF r = "raise"
              THEN pc' = [pc EXCEPT ![t] = "crashed"] /\ UNCHANGED loc
              ELSE Finish(t, r)
    /\ UNCHANGED <<file, recent, nreq, adds, other, notBot>>

\* The exception raised by float() or ai.get leaves webhook: Flask answers
\* 500 and no reply is sent.
Crash(t) ==
    /\ pc[t] = "crashed"
    /\ pc' = [pc EXCEPT ![t] = "idle"]
    /\ loc' = [loc EXCEPT ![t] = [NoLoc EXCEPT !.chat = loc[t].chat, !.h = loc[t].h,
                                               !.reply = "error_500"]]
    /\ UNCHANGED <<file, recent, nreq, adds, other, notBot>>

BotNext ==
    \E t \in Threads :
        \/ Receive(t) \/ UnitsGet(t) \/ AddGet(t) \/ SetLoad(t) \/ SetSave(t)
        \/ ParlayBuild(t) \/ CacheLoad(t) \/ CacheSave(t)
        \/ BetLoad(t) \/ BetCheck(t) \/ BetSave(t) \/ PickReply(t) \/ Crash(t)

\* ------------------------------------------------------------------------
\* is_rate_limited and the rate-limit step of webhook
\* ------------------------------------------------------------------------
\* RATE_WINDOW_SEC, by default
RATE_WINDOW_SEC == 5

\* How far the clock runs past its start, and how many POSTs arrive.
MaxTicks == 6
MaxPosts == 4

\* The decision of is_rate_limited with a window of w seconds:
\* if now - last < w: return True, int(w - (now - last)); else False, 0
RateDecision(now, last, w) ==
    IF now - last < w
    THEN [limited |-> TRUE, wait |-> w - (now - last)]
    ELSE [limited |-> FALSE, wait |-> 0]

is_rate_limited_short_window(now, last) == RateDecision(now, last, RATE_WINDOW_SEC - 1)

is_rate_limited(now, last) == RateDecision(now, last, RATE_WINDOW_SEC)

NoQLoc == [chat |-> 0, now |-> 0, limited |-> FALSE, wait |-> 0, sent |-> <<>>, ran |-> FALSE]

\* time.time() counts from 1970: at start the clock is already further than
\* one window from the 0 that LAST_REQUEST.get(..., 0) reads for a new chat.
RateInit ==
    /\ clock = RATE_WINDOW_SEC
    /\ LAST_REQUEST = [c \in Chats |-> 0]
    /\ rateLock = 0
    /\ nPosts = 0
    /\ qPc = [t \in Threads |-> "idle"]
    /\ qLoc = [t \in Threads |-> NoQLoc]
    /\ passes = [c \in Chats |-> <<>>]

RateIdle ==
    /\ clock = 0
    /\ LAST_REQUEST = [c \in Chats |-> 0]
    /\ rateLock = 0
    /\ nPosts = 0
    /\ qPc = [t \in Threads |-> "off"]
    /\ qLoc = [t \in Threads |-> NoQLoc]
    /\ passes = [c \in Chats |-> <<>>]

\* The clock never runs backwards; it advances between any two steps.
Tick ==
    /\ clock < RATE_WINDOW_SEC + MaxTicks
    /\ clock' = clock + 1
    /\ UNCHANGED <<LAST_REQUEST, rateLock, nPosts, qPc, qLoc, passes, notRate>>

\* A POST with a message of chat c arrives on request thread t.
Post(t) ==
    /\ qPc[t] = "idle"
    /\ nPosts < MaxPosts
    /\ nPosts' = nPosts + 1
    /\ \E c \in Chats : qLoc' = [qLoc EXCEPT ![t] = [NoQLoc EXCEPT !.chat = c]]
    /\ qPc' = [qPc EXCEPT ![t] = "acquire"]
    /\ UNCHANGED <<clock, LAST_REQUEST, rateLock, passes, notRate>>

\* with LAST_REQUEST_LOCK:
Acquire(t) ==
    /\ qPc[t] = "acquire"
    /\ rateLock = 0
    /\ rateLock' = t
    /\ qPc' = [qPc EXCEPT ![t] = "now"]
    /\ UNCHANGED <<clock, LAST_REQUEST, nPosts, qLoc, passes, notRate>>

\* now = time.time()
ReadNow(t) ==
    /\ qPc[t] = "now"
    /\ qLoc' = [qLoc EXCEPT ![t].now = clock]
    /\ qPc' = [qPc EXCEPT ![t] = "check"]
    /\ UNCHANGED <<clock, LAST_REQUEST, rateLock, nPosts, passes, notRate>>

\* last = LAST_REQUEST.get(chat, 0); the comparison; LAST_REQUEST[chat] = now
\* when the request passes; the lock is released on return.
Check(t) ==
    /\ qPc[t] = "check"
    /\ LET c == qLoc[t].chat
           r == is_rate_limited(qLoc[t].now, LAST_REQUEST[c])
       IN  /\ qLoc' = [qLoc EXCEPT ![t].limited = r.limited, ![t].wait = r.wait]
           /\ IF r.limited
              THEN /\ qPc' = [qPc EXCEPT ![t] = "limited"]
                   /\ UNCHANGED <<LAST_REQUEST, passes>>
              ELSE /\ qPc' = [qPc EXCEPT ![t] = "dispatch"]
                   /\ LAST_REQUEST' = [LAST_REQUEST EXCEPT ![c] = qLoc[t].now]
                   /\ passes' = [passes EXCEPT ![c] = Append(@, qLoc[t].now)]
    /\ rateLock' = 0
    /\ UNCHANGED <<clock, nPosts, notRate>>

\* if limited: send_telegram(chat_id, "Rate limit: ..."); return
SendNotice(t) ==
    /\ qPc[t] = "limited"
    /\ qLoc' = [qLoc EXCEPT ![t].sent = Append(@, "rate_limit")]
    /\ qPc' = [qPc EXCEPT ![t] = "idle"]
    /\ UNCHANGED <<clock, LAST_REQUEST, rateLock, nPosts, passes, notRate>>

\* Otherwise the text selects a branch; the branch runs and replies.
RunCommand(t) ==
    /\ qPc[t] = "dispatch"
    /\ qLoc' = [qLoc EXCEPT ![t].ran = TRUE, ![t].sent = Append(@, "reply")]
    /\ qPc' = [qPc EXCEPT ![t] = "idle"]
    /\ UNCHANGED <<clock, LAST_REQUEST, rateLock, nPosts, passes, notRate>>

RateNext ==
    \/ Tick
    \/ \E t \in Threads :
          \/ Post(t) \/ Acquire(t) \/ ReadNow(t) \/ Check(t)
          \/ SendNotice(t) \/ RunCommand(t)

\* ------------------------------------------------------------------------
\* get_cached_odds and fetch_odds_api
\* ------------------------------------------------------------------------
\* CACHE_TTL, by default, in seconds
CACHE_TTL == 55

\* The instants of a run at which steps are taken: the start, the last second
\* before an entry stored at the start expires, and the second it expires.
Instants == {0, CACHE_TTL - 1, CACHE_TTL}

\* How many games the Odds API lists at most, and how many calls a run makes.
MaxFeed == 2
MaxCalls == 3

\* _cache_key: the sport keys the callers pass
SportKeys == {"americanfootball_nfl", "americanfootball_ncaaf"}

\* The limit arguments: below, at and above the number of games listed.
Limits == 1..MaxFeed

\* q[:n]
Take(q, n) == SubSeq(q, 1, Min(n, Len(q)))

\* None, and a list of games
None == [ok |-> FALSE, v |-> <<>>]
Some(q) == [ok |-> TRUE, v |-> q]

NoEntry == [has |-> FALSE, ts |-> 0, data |-> <<>>]
Entry(ts, data) == [has |-> TRUE, ts |-> ts, data |-> data]

\* rec and (time.time() - rec["ts"] < CACHE_TTL)
CacheFresh_inclusive(rec, now) == rec.has /\ now - rec.ts <= CACHE_TTL

CacheFresh(rec, now) == rec.has /\ now - rec.ts < CACHE_TTL

\* fetch_odds_api on status 200: data = resp.json()[:limit]
FetchedData(resp, limit) == Take(resp, limit)

NoCLoc ==
    [key |-> "none", limit |-> 0, hadEntry |-> FALSE, age |-> 0, called |-> FALSE,
     data |-> None, ret |-> None, done |-> "none"]

\* The Odds API lists n games for each sport key: its response is the same
\* list for the length of a run.
FeedOf(k, n) == [i \in 1..n |-> <<k, i>>]

CacheInit ==
    /\ cacheClock = 0
    /\ ODDS_KEY \in BOOLEAN
    /\ CACHE = [k \in SportKeys |-> NoEntry]
    /\ \E n \in 0..MaxFeed : feed = [k \in SportKeys |-> FeedOf(k, n)]
    /\ nCalls = 0
    /\ cPc = [t \in Threads |-> "idle"]
    /\ cLoc = [t \in Threads |-> NoCLoc]

CacheIdle ==
    /\ cacheClock = 0
    /\ ODDS_KEY = FALSE
    /\ CACHE = [k \in SportKeys |-> NoEntry]
    /\ feed = [k \in SportKeys |-> <<>>]
    /\ nCalls = 0
    /\ cPc = [t \in Threads |-> "off"]
    /\ cLoc = [t \in Threads |-> NoCLoc]

\* Time passes, to a later instant.
CacheTick ==
    /\ \E later \in Instants : later > cacheClock /\ cacheClock' = later
    /\ UNCHANGED <<ODDS_KEY, CACHE, feed, nCalls, cPc, cLoc, notCache>>

\* get_cached_odds(sport_key, limit) is called on thread t.
GetCachedOdds(t) ==
    /\ cPc[t] = "idle"
    /\ nCalls < MaxCalls
    /\ nCalls' = nCalls + 1
    /\ \E k \in SportKeys, l \in Limits :
          cLoc' = [cLoc EXCEPT ![t] = [NoCLoc EXCEPT !.key = k, !.limit = l]]
    /\ cPc' = [cPc EXCEPT ![t] = "lookup"]
    /\ UNCHANGED <<cacheClock, ODDS_KEY, CACHE, feed, notCache>>

\* with CACHE_LOCK: rec = CACHE.get(key); a fresh rec returns
\* rec["data"][:limit], anything else goes on to fetch.
CacheLookup(t) ==
    /\ cPc[t] = "lookup"
    /\ LET rec == CACHE[cLoc[t].key]
           seen == [cLoc[t] EXCEPT !.hadEntry = rec.has,
                                   !.age = IF rec.has THEN cacheClock - rec.ts ELSE 0]
       IN  IF CacheFresh(rec, cacheClock)
           THEN /\ cLoc' = [cLoc EXCEPT ![t] =
                              [seen EXCEPT !.ret = Some(Take(rec.data, cLoc[t].limit)),
                                           !.done = "hit"]]
                /\ cPc' = [cPc EXCEPT ![t] = "idle"]
           ELSE /\ cLoc' = [cLoc EXCEPT ![t] = seen]
                /\ cPc' = [cPc EXCEPT ![t] = "fetch"]
    /\ UNCHANGED <<cacheClock, ODDS_KEY, CACHE, feed, nCalls, notCache>>

\* fetch_odds_api: None without a call when ODDS_KEY is not configured;
\* otherwise requests.get, which answers 200 with the games or fails (another
\* status, a timeout, a body that is no list).
FetchOddsApi(t) ==
    /\ cPc[t] = "fetch"
    /\ IF ~ODDS_KEY
       THEN cLoc' = [cLoc EXCEPT ![t].data = None]
       ELSE \E ok \in BOOLEAN :
              cLoc' = [cLoc EXCEPT ![t].called = TRUE,
                                   ![t].data = IF ok THEN Some(FetchedData(feed[cLoc[t].key], cLoc[t].limit))
                                                     ELSE None]
    /\ cPc' = [cPc EXCEPT ![t] = "store"]
    /\ UNCHANGED <<cacheClock, ODDS_KEY, CACHE, feed, nCalls, notCache>>

\* if data is not None: CACHE[key] = {"ts": time.time(), "data": data};
\* return data
CacheStore(t) ==
    /\ cPc[t] = "store"
    /\ CACHE' = IF cLoc[t].data.ok
                THEN [CACHE EXCEPT ![cLoc[t].key] = Entry(cacheClock, cLoc[t].data.v)]
                ELSE CACHE
    /\ cLoc' = [cLoc EXCEPT ![t].ret = cLoc[t].data, ![t].done = "fetched"]
    /\ cPc' = [cPc EXCEPT ![t] = "idle"]
    /\ UNCHANGED <<cacheClock, ODDS_KEY, feed, nCalls, notCache>>

CacheNext ==
    \/ CacheTick
    \/ \E t \in Threads :
          GetCachedOdds(t) \/ CacheLookup(t) \/ FetchOddsApi(t) \/ CacheStore(t)

\* ------------------------------------------------------------------------
\* Specifications
\* ------------------------------------------------------------------------
InitEcon == EconInit /\ SharpIdle /\ RankIdle /\ RouteIdle /\ BotIdle /\ RateIdle /\ CacheIdle
SpecEcon == InitEcon /\ [][EconNext]_vars

InitSharp == SharpInit /\ EconIdle /\ RankIdle /\ RouteIdle /\ BotIdle /\ RateIdle /\ CacheIdle
SpecSharp == InitSharp /\ [][SharpNext]_vars

InitRank == RankInit /\ EconIdle /\ SharpIdle /\ RouteIdle /\ BotIdle /\ RateIdle /\ CacheIdle
SpecRank == InitRank /\ [][RankNext]_vars

InitRoute == RouteInit /\ EconIdle /\ SharpIdle /\ RankIdle /\ BotIdle /\ RateIdle /\ CacheIdle
SpecRoute == InitRoute /\ [][RouteNext]_vars

Init == BotInit /\ EconIdle /\ SharpIdle /\ RankIdle /\ RouteIdle /\ RateIdle /\ CacheIdle
Spec == Init /\ [][BotNext]_vars

InitRate == RateInit /\ EconIdle /\ SharpIdle /\ RankIdle /\ RouteIdle /\ BotIdle /\ CacheIdle
SpecRate == InitRate /\ [][RateNext]_vars

InitCache ==
    CacheInit /\ EconIdle /\ SharpIdle /\ RankIdle /\ RouteIdle /\ BotIdle /\ RateIdle
SpecCache == InitCache /\ [][CacheNext]_vars

\* ------------------------------------------------------------------------
\* Claims on compute_sharp_score and sharp_card_text
\* ------------------------------------------------------------------------
\* The game carries a spread quote whose point is a number (what the code's
\* isinstance(pt, (int, float)) accepts), wherever it sits.
HasNumericSpread(g) ==
    \E b \in Range(g.bookmakers.items) :
        \E m \in Range(b.markets.items) :
            /\ m.key = "spreads"
            /\ \E o \in Range(m.outcomes.items) : o.rec /\ o.point.k = "num"

HasMoneyline(g) ==
    \E b \in Range(g.bookmakers.items) :
        \E m \in Range(b.markets.items) :
            /\ m.key = "h2h"
            /\ \E o \in Range(m.outcomes.items) : o.rec /\ o.price.k = "num"

\* C4: compute_sharp_score returns exactly 0.0 for every game without a
\* numeric spread quote, whatever else the game carries, and also when the
\* bookmakers list is empty, null or missing.
C4_NoSpreadScoresZero ==
    (sPc = "ret" /\ ~HasNumericSpread(game)) => score = 0

C4_Witness ==
    /\ sPc = "ret" /\ ~HasNumericSpread(game) /\ HasMoneyline(game)
    /\ ~CompareRaises(game) /\ score = 0

\* A bookmakers entry that is malformed as a whole: no record, a null
\* markets list, or a null outcomes list in a market.
MalformedBook(b) ==
    \/ ~b.rec
    \/ b.markets.k = "null"
    \/ \E m \in Range(b.markets.items) : m.outcomes.k = "null"

WithoutBook(g, i) ==
    Game(List(SubSeq(g.bookmakers.items, 1, i - 1)
                \o SubSeq(g.bookmakers.items, i + 1, Len(g.bookmakers.items))))

\* C5: a malformed bookmakers entry is skipped: the score of the game is the
\* score of the same game with that entry removed.
C5_MalformedEntrySkipped ==
    sPc = "ret" =>
        \A i \in 1..Len(game.bookmakers.items) :
            MalformedBook(game.bookmakers.items[i]) =>
                score = compute_sharp_score(WithoutBook(game, i))

\* C6: the ranking of sharp_card_text is by descending score and stable, and
\* the top_n selection is decided by the fetched list alone: the output holds
\* min(top_n, n) games, each with its own score, scores never increase, equal
\* scores keep their fetch order, and every game left out ranks after the
\* last one kept.
C6_StableDescending ==
    (kPc = "ret" /\ games # <<>>) =>
        /\ Len(ranked) = Min(TopN, Len(games))
        /\ \A i \in 1..Len(ranked) :
              /\ ranked[i].idx \in 1..Len(games)
              /\ ranked[i].sc = compute_sharp_score(games[ranked[i].idx])
        /\ \A i, j \in 1..Len(ranked) :
              i < j =>
                 \/ ranked[i].sc > ranked[j].sc
                 \/ ranked[i].sc = ranked[j].sc /\ ranked[i].idx < ranked[j].idx
        /\ \A k \in 1..Len(games) :
              (\A i \in 1..Len(ranked) : ranked[i].idx # k) =>
                 LET last == ranked[Len(ranked)]
                     sc == compute_sharp_score(games[k])
                 IN  sc < last.sc \/ (sc = last.sc /\ k > last.idx)

\* Two games of equal score are both ranked, and one game is cut by top_n.
C6_Witness ==
    /\ kPc = "ret" /\ Len(games) > TopN
    /\ \E i, j \in 1..Len(ranked) :
          i < j /\ ranked[i].sc = ranked[j].sc /\ ranked[i].sc > 0

\* ------------------------------------------------------------------------
\* Claims on the routing of webhook
\* ------------------------------------------------------------------------
\* C8: every command help_text lists, sent as listed by a chat that is not
\* rate-limited, is answered by its own branch and not by the help / default
\* reply; "sgp <team>" reaches the branch that calls build_sgp_for_team and
\* "parlay" the branch that calls build_auto_parlay.
C8_HelpCommandsDispatched ==
    (rPc = "sent" /\ ~rLimited) =>
        \A c \in HelpCommands : rText = c.text => rHandler = c.handler

\* ------------------------------------------------------------------------
\* Claims on the unit store
\* ------------------------------------------------------------------------
\* C9: after an accepted "/betparlay <u>" whose handler has returned (no
\* other delivery was handled meanwhile), the persisted balance of the chat
\* is its balance before the message minus u, and the bet is the last entry
\* of the chat's bets list.
C9_BetDeductsStake ==
    \A t \in Threads :
        (pc[t] = "idle" /\ loc[t].h = "betparlay" /\ loc[t].reply = "placed" /\ loc[t].solo) =>
            /\ file.units[loc[t].chat] = loc[t].before - loc[t].stake
            /\ file.bets[loc[t].chat] # <<>>
            /\ file.bets[loc[t].chat][Len(file.bets[loc[t].chat])] = loc[t].stake

Quiescent == \A t \in Threads : pc[t] = "idle"

\* C10: writes to the unit store are serialized: when only "add units"
\* messages (and reads) were accepted, however their handlers interleaved,
\* the persisted balance of every chat at quiescence is the initial balance
\* (0) plus the sum of all the deltas, the result of every serial order.
C10_NoLostUpdate ==
    (Quiescent /\ ~other) => \A c \in Chats : file.units[c] = adds[c]

\* ------------------------------------------------------------------------
\* Claims on the rate limiter
\* ------------------------------------------------------------------------
\* C11: for each chat, under every interleaving of concurrent requests and a
\* clock that never runs backwards, any two requests that pass
\* is_rate_limited are at least RATE_WINDOW_SEC seconds apart, and a request
\* that was rejected has sent the rate-limit notice and nothing else and has
\* run no command.
C11_RateLimited ==
    /\ \A c \in Chats : \A i, j \in 1..Len(passes[c]) :
          i < j => passes[c][j] - passes[c][i] >= RATE_WINDOW_SEC
    /\ \A t \in Threads :
          qLoc[t].limited =>
              /\ ~qLoc[t].ran
              /\ qLoc[t].sent = IF qPc[t] = "idle" THEN <<"rate_limit">> ELSE <<>>

\* One chat had two requests pass, and a request was rejected while another
\* thread was inside its handler.
C11_Witness ==
    /\ \E c \in Chats : Len(passes[c]) >= 2
    /\ \E t, u \in Threads :
          /\ qPc[t] = "idle" /\ qLoc[t].limited /\ qLoc[t].sent = <<"rate_limit">>
          /\ qPc[u] = "dispatch" /\ qLoc[u].chat = qLoc[t].chat

\* ------------------------------------------------------------------------
\* Claims on the odds cache
\* ------------------------------------------------------------------------
\* The call on thread t is past its check of the cache.
Decided(t) == cPc[t] = "store" \/ cLoc[t].done # "none"

\* What the check saw: no entry for the key, or one at least CACHE_TTL old.
SawMiss(t) == ~cLoc[t].hadEntry \/ cLoc[t].age >= CACHE_TTL

\* A step changes a cache entry only by storing, whole and stamped with the
\* time of the store, the games a successful fetch for that key returned.
ReplacedWhole ==
    \A k \in SportKeys :
        CACHE'[k] # CACHE[k] =>
            \E t \in Threads :
                /\ cPc[t] = "store" /\ cLoc[t].key = k
                /\ cLoc[t].called /\ cLoc[t].data.ok
                /\ cLoc[t].data.v = Take(feed[k], cLoc[t].limit)
                /\ CACHE'[k] = Entry(cacheClock, cLoc[t].data.v)

\* The store step of a failed fetch (None) changes no entry.
FailedFetchKeeps ==
    \A t \in Threads :
        (cPc[t] = "store" /\ cPc'[t] = "idle" /\ ~cLoc[t].data.ok) => CACHE' = CACHE

\* C12 as stated: get_cached_odds calls the Odds API if and only if its check
\* found no entry for the key or an entry at least CACHE_TTL old; an entry is
\* only replaced whole by the result of a successful fetch; a failed fetch
\* leaves the entry unchanged.
C12_ApiCalledIffMiss ==
    /\ [](\A t \in Threads : Decided(t) => (cLoc[t].called <=> SawMiss(t)))
    /\ [][ReplacedWhole /\ FailedFetchKeeps]_vars

\* C12, amended: get_cached_odds goes on to fetch_odds_api if and only if its
\* check found no entry for the key or an entry at least CACHE_TTL old, and
\* fetch_odds_api calls the Odds API exactly when ODDS_API_KEY is configured
\* (without it, it returns None and no call is made); an entry is only
\* replaced whole by the result of a successful fetch; a failed fetch leaves
\* the entry unchanged.
C12_FetchIffMiss ==
    /\ [](\A t \in Threads :
            Decided(t) =>
                /\ (cLoc[t].done # "hit") <=> SawMiss(t)
                /\ cLoc[t].called <=> (ODDS_KEY /\ SawMiss(t)))
    /\ [][ReplacedWhole /\ FailedFetchKeeps]_vars

\* A call found an entry exactly CACHE_TTL old and called the API, replacing
\* the entry or, the fetch failing, leaving it in place; another call was
\* served from an entry one second younger.
C12_Witness ==
    \E t, u \in Threads :
        /\ cPc[t] = "idle" /\ cLoc[t].done = "fetched"
        /\ cLoc[t].hadEntry /\ cLoc[t].age = CACHE_TTL /\ cLoc[t].called
        /\ \/ cLoc[t].data.ok /\ CACHE[cLoc[t].key] = Entry(cacheClock, cLoc[t].data.v)
           \/ ~cLoc[t].data.ok /\ CACHE[cLoc[t].key].has
        /\ cPc[u] = "idle" /\ cLoc[u].done = "hit" /\ cLoc[u].age = CACHE_TTL - 1

\* C15: what get_cached_odds returns does not depend on the limits of
\* earlier calls: a call with limit L that returns games returns the first
\* min(L, N) games of the N the Odds API lists for the key, also when it is
\* served from an entry a call with a smaller limit stored.
C15_LimitIndependent ==
    \A t \in Threads :
        (cPc[t] = "idle" /\ cLoc[t].done # "none" /\ cLoc[t].ret.ok) =>
            cLoc[t].ret.v = Take(feed[cLoc[t].key], cLoc[t].limit)

\* ------------------------------------------------------------------------
\* Claims on the terms of compute_sharp_score
\* ------------------------------------------------------------------------
\* The teams whose spread two or more bookmakers list.
TwoBookTeams(g) == {t \in SpreadTeams(g) : Len(SpreadVals(g, t)) >= 2}

\* C13: only the teams whose spread two or more books list contribute a mean
\* and a population standard deviation, a team listed by one book
\* contributes to neither: where some team has two quotes, the score is the
\* one combined from the averages over those teams alone.
C13_OnlyMultiBookSubjects ==
    (sPc = "ret" /\ ~CompareRaises(game) /\ TwoBookTeams(game) # {}) =>
        LET ts == TwoBookTeams(game)
            meanAbs == SumFun([t \in ts |-> AbsMean4(SpreadVals(game, t))], ts)
                            \div Cardinality(ts)
            meanStd == SumFun([t \in ts |-> Pstdev4(SpreadVals(game, t))], ts)
                            \div Cardinality(ts)
        IN  score = Combine4(meanAbs, meanStd, MlDivergence4(game))

\* The implied probability of one price, in units of 1/10000: 1 / price, or
\* 0.5 when the price is 1.01 or less.
ImpliedProb4(p) == IF p > 101 THEN 1000000 \div p ELSE 5000

\* C14: mlDivergence converts each price to its own implied probability,
\* averages the probabilities per team and then the distances from 0.5 over
\* the teams: the score is the one combined from that divergence, up to one
\* unit of its last decimal.
C14_PerPriceProbability ==
    (sPc = "ret" /\ ~CompareRaises(game) /\ SpreadTeams(game) # {}) =>
        LET ts == MlTeams(game)
            prob(t) == LET ps == TeamPrices(game, t)
                       IN  SumSeq([i \in 1..Len(ps) |-> ImpliedProb4(ps[i])]) \div Len(ps)
            mlDiv == IF ts = {} THEN 0
                     ELSE SumFun([t \in ts |-> Abs(prob(t) - 5000)], ts) \div Cardinality(ts)
        IN  Abs(score - Combine4(MeanAbs4(game), MeanStd4(game), mlDiv)) <= 1

\* ------------------------------------------------------------------------
\* Claims on the replies of webhook and on the bets it records
\* ------------------------------------------------------------------------
\* C16: whatever the text of the message (a malformed argument included) and
\* whatever the language model returns, the handler of a message sends one
\* reply to the chat and returns: no request ends with an exception.
C16_AlwaysOneReply ==
    \A t \in Threads :
        /\ pc[t] # "crashed"
        /\ (pc[t] = "idle" /\ loc[t].h # "none") => loc[t].reply \notin {"none", "error_500"}

\* C17: every bet in a chat's bets list has a stake above 0, a "/betparlay"
\* that was placed had a stake of at most the chat's balance, and a
\* "/betparlay" with a stake of 0 or below is not placed.
C17_StakeWithinBalance ==
    /\ \A c \in Chats : \A i \in 1..Len(file.bets[c]) : file.bets[c][i] > 0
    /\ \A t \in Threads :
          (pc[t] = "idle" /\ loc[t].h = "betparlay" /\ loc[t].solo) =>
              /\ loc[t].reply = "placed" => (0 < loc[t].stake /\ loc[t].stake <= loc[t].before)
              /\ loc[t].stake <= 0 => loc[t].reply # "placed"

====
